---- MODULE Spec2Model ----
(***************************************************************************)
(* Model of ImageCollectionMatcher_Generic::Match                          *)
(* (matching_image_collection/Matcher_Regions_AllInMemory.cpp) and of the  *)
(* grid filtering of SIFT_openCV_ImageDescriber::Describe                  *)
(* (features/openCV/SIFT_openCV_describer.cpp).                            *)
(***************************************************************************)
EXTENDS Integers, Sequences, FiniteSets, TLC

(* ---------------------------- bounds ----------------------------------- *)
MaxView == 2          \* views are 0..MaxView
MaxPairs == 3         \* largest pairs.size()
MaxThreads == 2       \* largest OpenMP team
Width == 2            \* image.Width()
Height == 2           \* image.Height()
MaxGrid == 2          \* largest _params.gridSize
MaxTotal == 2         \* largest _params.maxTotalKeypoints
MaxKeypoints == 3     \* most keypoints the detector returns
MaxSize == 2          \* largest cv::KeyPoint::size

Views == 0..MaxView
Threads == 1..MaxThreads
\* Pair_Set: a std::set of (I,J) pairs; iterated in lexicographic order
AllPairs == {p \in Views \X Views : p[1] < p[2]}
MatcherTypes == {"BRUTE_FORCE_L2", "ANN_L2", "CASCADE_HASHING_L2"}
TypeIds == {"uchar", "float"}
descType == "SIFT"
NoView == 0 - 1
\* RegionCount() is only ever compared with 0 (lines 63, 78): a view is empty
\* or it is not, and matcher.Match finds no match or some
RegionCounts == {0, 1}

VARIABLES
  \* ---- inputs of Match ----
  matcherType,          \* _matcherType
  pairs,                \* const Pair_Set & pairs
  regionsPerView,       \* view -> [count, type] : RegionCount(), Type_id()
  putatives,            \* pair -> number of matches matcher.Match returns
  \* ---- state of Match ----
  pc,                   \* "start", "loop", "parallel", "done"
  map_Pairs,            \* reference view -> sequence of comparison views
  todo,                 \* keys of map_Pairs the outer loop has not visited
  I,                    \* current reference view (iter->first)
  matcher,              \* reference views whose RegionsDatabaseMatcher is alive
  nextJ,                \* next iteration j the dynamic schedule hands out
  wpc,                  \* thread -> position in the loop body
  wI, wJ,               \* thread -> the views of its current comparison
  wvec,                 \* thread -> its local vec_putatives_matches
  critical,             \* owner of the unnamed omp critical section, 0 = free
  my_progress_bar,      \* count of the C_Progress_display
  expected_count,       \* C_Progress_display(pairs.size())
  map_PutativesMatches, \* the output map
  \* ---- call counters ----
  buildCount,           \* view -> number of RegionsDatabaseMatcher built on it
  matchRuns,            \* pair -> number of matcher.Match calls
  insertCount,          \* pair -> number of emplace calls
  \* ---- inputs of Describe ----
  gridSize,             \* _params.gridSize
  maxTotalKeypoints,    \* _params.maxTotalKeypoints
  detected,             \* what siftdetector->detect stored in v_keypoints
  \* ---- state of Describe ----
  dpc,                  \* "sort", "gate", "loop", "fill", "done", "thrown"
  v_keypoints,
  filtered_keypoints,
  rejected_keypoints,
  countFeatPerCell,     \* <<row, col>> -> count, gridSize x gridSize
  keypointsPerCell,
  k,                    \* position of the range-for of line 98 in v_keypoints
  cellX, cellY,         \* the indices of the last keypoint visited
  nGrid                 \* filtered_keypoints.size() when the loop ended

inputs == <<matcherType, pairs, regionsPerView, putatives>>
mvars == <<pc, map_Pairs, todo, I, matcher, nextJ, wpc, wI, wJ, wvec, critical,
           my_progress_bar, expected_count, map_PutativesMatches,
           buildCount, matchRuns, insertCount>>
dinputs == <<gridSize, maxTotalKeypoints, detected>>
dvars == <<dinputs, dpc, v_keypoints, filtered_keypoints, rejected_keypoints,
           countFeatPerCell, keypointsPerCell, k, cellX, cellY, nGrid>>
vars == <<inputs, mvars, dvars>>

(* ---------------------------- helpers ---------------------------------- *)
Min(S) == CHOOSE x \in S : \A y \in S : x <= y

RECURSIVE SortedSeq(_)
\* the elements of a set of naturals in ascending order
SortedSeq(S) == IF S = {} THEN <<>> ELSE <<Min(S)>> \o SortedSeq(S \ {Min(S)})

RegionCount(v) == regionsPerView[v].count
Type_id(v) == regionsPerView[v].type

\* lines 47-53: map_Pairs[iter->first].push_back(iter->second) over the set
GroupPairs(ps) ==
  [i \in {p[1] : p \in ps} |-> SortedSeq({p[2] : p \in {q \in ps : q[1] = i}})]

\* line 42
b_multithreaded_pair_search_all == TRUE
b_multithreaded_pair_search == (matcherType = "CASCADE_HASHING_L2")

\* line 72: the team of the parallel for; one thread when the if clause is
\* false.  schedule(dynamic) hands iterations to whichever thread asks, so a
\* run of a smaller team is a run in which some thread never takes one.
Team == IF b_multithreaded_pair_search THEN Threads ELSE {1}

\* line 63
RegionsIEmpty_never(i) == FALSE
RegionsIEmpty(i) == RegionCount(i) = 0

\* lines 78-79
SkipJ_countOnly(i, j) == RegionCount(j) = 0
SkipJ(i, j) == RegionCount(j) = 0 \/ Type_id(i) # Type_id(j)

\* line 65: my_progress_bar += indexToCompare.size()
SkippedGroupAdvance_one(n) == 1
SkippedGroupAdvance(n) == n

\* line 87: the IndMatches matcher.Match fills for the pair
IndMatches(n) == [q \in 1..n |-> <<0, q - 1>>]

\* line 86: vec_putatives_matches is local to the iteration
LocalVec_shared(w) == wvec[1]
LocalVec(w) == wvec[w]

\* line 91
VecNonEmpty_always(v) == TRUE
VecNonEmpty(v) == v # <<>>

\* std::map::emplace: inserts only when the key is absent
Emplace(m, key, v) == IF key \in DOMAIN m THEN m ELSE m @@ (key :> v)

\* line 93: map_PutativesMatches[std::make_pair(I,J)].emplace(descType, vec)
InsertMatches(m, i, j, v) ==
  LET key == <<i, j>>
      inner == IF key \in DOMAIN m THEN m[key] ELSE <<>>
      newInner == Emplace(inner, descType, v)
  IN  [p \in DOMAIN m \cup {key} |-> IF p = key THEN newInner ELSE m[p]]

\* the unnamed critical section of lines 81 and 88 is one and the same lock
omp_critical_free_unnamed == TRUE
omp_critical_free == critical = 0

\* implicit barrier at the end of the parallel for (line 96)
BarrierReached_none == TRUE
BarrierReached == \A w \in Threads : wpc[w] = "idle"

(* ---------------------------- Init ------------------------------------- *)
RegionKinds == [count : RegionCounts, type : TypeIds]

\* a pair the loop body hands to matcher.Match
Matchable(ps, rpv, p) ==
  /\ p \in ps
  /\ rpv[p[1]].count > 0 /\ rpv[p[2]].count > 0
  /\ rpv[p[1]].type = rpv[p[2]].type

InitMatch ==
  /\ matcherType \in MatcherTypes
  /\ pairs \in {ps \in SUBSET AllPairs : Cardinality(ps) <= MaxPairs}
  \* a view no pair names is never fetched, and Type_id() of an empty view is
  \* compared with nothing that decides a branch: both are fixed
  /\ regionsPerView \in [Views -> RegionKinds]
  /\ \A v \in Views :
       /\ regionsPerView[v].count = 0 => regionsPerView[v].type = "uchar"
       /\ (\A p \in pairs : v # p[1] /\ v # p[2]) => regionsPerView[v].count = 0
  \* matcher.Match returns at most one match per descriptor of J; its answer
  \* for a pair that is never handed to it is immaterial and fixed to 0
  /\ putatives \in [AllPairs -> RegionCounts]
  /\ \A p \in AllPairs :
       /\ putatives[p] <= regionsPerView[p[2]].count
       /\ ~Matchable(pairs, regionsPerView, p) => putatives[p] = 0
  /\ pc = "start"
  /\ map_Pairs = <<>>
  /\ todo = {}
  /\ I = NoView
  /\ matcher = {}
  /\ nextJ = 1
  /\ wpc = [w \in Threads |-> "idle"]
  /\ wI = [w \in Threads |-> NoView]
  /\ wJ = [w \in Threads |-> NoView]
  /\ wvec = [w \in Threads |-> <<>>]
  /\ critical = 0
  /\ my_progress_bar = 0
  /\ expected_count = 0
  /\ map_PutativesMatches = <<>>
  /\ buildCount = [v \in Views |-> 0]
  /\ matchRuns = [p \in AllPairs |-> 0]
  /\ insertCount = [p \in AllPairs |-> 0]
  \* no Describe call
  /\ gridSize = 1 /\ maxTotalKeypoints = 1 /\ detected = <<>>
  /\ dpc = "done"
  /\ v_keypoints = <<>> /\ filtered_keypoints = <<>> /\ rejected_keypoints = <<>>
  /\ countFeatPerCell = <<>> /\ keypointsPerCell = 0
  /\ k = 1 /\ cellX = 0 /\ cellY = 0 /\ nGrid = 0

(* ---------------------------- actions ---------------------------------- *)
\* lines 45-53
Group ==
  /\ pc = "start"
  /\ expected_count' = Cardinality(pairs)
  /\ map_Pairs' = GroupPairs(pairs)
  /\ todo' = DOMAIN GroupPairs(pairs)
  /\ pc' = "loop"
  /\ UNCHANGED <<dvars, inputs, I, matcher, nextJ, wpc, wI, wJ, wvec, critical,
                 my_progress_bar, map_PutativesMatches,
                 buildCount, matchRuns, insertCount>>

\* lines 56-67: the reference view has no region, the whole group is skipped
SkipGroup ==
  /\ pc = "loop" /\ todo # {}
  /\ LET i == Min(todo) IN
       /\ RegionsIEmpty(i)
       /\ I' = i
       /\ my_progress_bar' = my_progress_bar + SkippedGroupAdvance(Len(map_Pairs[i]))
       /\ todo' = todo \ {i}
  /\ UNCHANGED <<dvars, inputs, pc, map_Pairs, matcher, nextJ, wpc, wI, wJ, wvec,
                 critical, expected_count, map_PutativesMatches,
                 buildCount, matchRuns, insertCount>>

\* lines 56-72: build the matcher over regionsI and open the parallel for
Build ==
  /\ pc = "loop" /\ todo # {}
  /\ LET i == Min(todo) IN
       /\ ~RegionsIEmpty(i)
       /\ I' = i
       /\ matcher' = matcher \cup {i}
       /\ buildCount' = [buildCount EXCEPT ![i] = @ + 1]
  /\ nextJ' = 1
  /\ pc' = "parallel"
  /\ UNCHANGED <<dvars, inputs, map_Pairs, todo, wpc, wI, wJ, wvec, critical,
                 my_progress_bar, expected_count, map_PutativesMatches,
                 matchRuns, insertCount>>

\* lines 73-87: a thread of the team takes the next iteration, tests J and,
\* unless the pair is skipped, runs matcher.Match into its local vector
Fetch(w) ==
  /\ pc = "parallel" /\ w \in Team /\ wpc[w] = "idle"
  /\ nextJ <= Len(map_Pairs[I])
  /\ LET j == map_Pairs[I][nextJ] IN
       /\ wI' = [wI EXCEPT ![w] = I]
       /\ wJ' = [wJ EXCEPT ![w] = j]
       /\ IF SkipJ(I, j)
            THEN /\ wpc' = [wpc EXCEPT ![w] = "skip_wait"]
                 /\ UNCHANGED <<wvec, matchRuns>>
            ELSE /\ wpc' = [wpc EXCEPT ![w] = "insert_wait"]
                 /\ wvec' = [wvec EXCEPT ![w] = IndMatches(putatives[<<I, j>>])]
                 /\ matchRuns' = [matchRuns EXCEPT ![<<I, j>>] = @ + 1]
  /\ nextJ' = nextJ + 1
  /\ UNCHANGED <<dvars, inputs, pc, map_Pairs, todo, I, matcher, critical,
                 my_progress_bar, expected_count, map_PutativesMatches,
                 buildCount, insertCount>>

\* line 81: enter the critical section of the skip branch
EnterSkip(w) ==
  /\ wpc[w] = "skip_wait"
  /\ omp_critical_free
  /\ critical' = w
  /\ wpc' = [wpc EXCEPT ![w] = "skip_crit"]
  /\ UNCHANGED <<dvars, inputs, pc, map_Pairs, todo, I, matcher, nextJ, wI, wJ, wvec,
                 my_progress_bar, expected_count, map_PutativesMatches,
                 buildCount, matchRuns, insertCount>>

\* lines 82-83: ++my_progress_bar; continue
SkipIncrement(w) ==
  /\ wpc[w] = "skip_crit"
  /\ my_progress_bar' = my_progress_bar + 1
  /\ critical' = 0
  /\ wpc' = [wpc EXCEPT ![w] = "idle"]
  /\ UNCHANGED <<dvars, inputs, pc, map_Pairs, todo, I, matcher, nextJ, wI, wJ, wvec,
                 expected_count, map_PutativesMatches,
                 buildCount, matchRuns, insertCount>>

\* line 88: enter the critical section of the insertion
EnterInsert(w) ==
  /\ wpc[w] = "insert_wait"
  /\ omp_critical_free
  /\ critical' = w
  /\ wpc' = [wpc EXCEPT ![w] = "insert_crit"]
  /\ UNCHANGED <<dvars, inputs, pc, map_Pairs, todo, I, matcher, nextJ, wI, wJ, wvec,
                 my_progress_bar, expected_count, map_PutativesMatches,
                 buildCount, matchRuns, insertCount>>

\* lines 89-95: the body of the critical section
Insert(w) ==
  /\ wpc[w] = "insert_crit"
  /\ my_progress_bar' = my_progress_bar + 1
  /\ IF VecNonEmpty(LocalVec(w))
       THEN /\ map_PutativesMatches' =
                 InsertMatches(map_PutativesMatches, wI[w], wJ[w], LocalVec(w))
            /\ insertCount' = [insertCount EXCEPT ![<<wI[w], wJ[w]>>] = @ + 1]
       ELSE UNCHANGED <<map_PutativesMatches, insertCount>>
  /\ critical' = 0
  /\ wvec' = [wvec EXCEPT ![w] = <<>>]
  /\ wpc' = [wpc EXCEPT ![w] = "idle"]
  /\ UNCHANGED <<dvars, inputs, pc, map_Pairs, todo, I, matcher, nextJ, wI, wJ,
                 expected_count, buildCount, matchRuns>>

\* lines 96-97: the team joins, the matcher goes out of scope
EndGroup ==
  /\ pc = "parallel"
  /\ nextJ > Len(map_Pairs[I])
  /\ BarrierReached
  /\ matcher' = matcher \ {I}
  /\ todo' = todo \ {I}
  /\ pc' = "loop"
  /\ UNCHANGED <<dvars, inputs, map_Pairs, I, nextJ, wpc, wI, wJ, wvec, critical,
                 my_progress_bar, expected_count, map_PutativesMatches,
                 buildCount, matchRuns, insertCount>>

\* line 98
Return ==
  /\ pc = "loop" /\ todo = {}
  /\ pc' = "done"
  /\ UNCHANGED <<dvars, inputs, map_Pairs, todo, I, matcher, nextJ, wpc, wI, wJ, wvec,
                 critical, my_progress_bar, expected_count,
                 map_PutativesMatches, buildCount, matchRuns, insertCount>>

Init == InitMatch

Next ==
  \/ Group
  \/ SkipGroup
  \/ Build
  \/ \E w \in Threads : Fetch(w)
  \/ \E w \in Threads : EnterSkip(w)
  \/ \E w \in Threads : SkipIncrement(w)
  \/ \E w \in Threads : EnterInsert(w)
  \/ \E w \in Threads : Insert(w)
  \/ EndGroup
  \/ Return

Spec == Init /\ [][Next]_vars

(* ------------- SIFT_openCV_ImageDescriber::Describe -------------------- *)
\* a cv::KeyPoint: pt.x, pt.y, size; id tells equal keypoints apart
KeyPoints == [id : 1..MaxKeypoints, x : 0..Width, y : 0..Height, size : 1..MaxSize]

Min2(a, b) == IF a <= b THEN a ELSE b

\* line 76: std::sort by descending size; the order among equal sizes is
\* whatever the sort leaves
SortedOrders(kps) ==
  {s \in [1..Len(kps) -> 1..Len(kps)] :
     /\ \A a \in 1..Len(kps), b \in 1..Len(kps) : a # b => s[a] # s[b]
     /\ \A a \in 1..Len(kps), b \in 1..Len(kps) :
          a < b => kps[s[a]].size >= kps[s[b]].size}

\* line 90: _params.maxTotalKeypoints / countFeatPerCell.total()
KeypointsPerCell(maxTotal, grid) == maxTotal \div (grid * grid)

\* lines 91, 100: std::size_t(pt.x / regionWidth) with regionWidth =
\* Width / double(gridSize), then std::min(., gridSize)
CellX(kp, grid) == Min2((kp.x * grid) \div Width, grid)

\* lines 92, 101
CellY(kp, grid) == Min2((kp.y * grid) \div Height, grid)

\* cv::Mat::at<std::size_t>(i0, i1) is checked by CV_DbgAssert only
InMatrix(cx, cy, grid) == cx < grid /\ cy < grid

\* cv::Mat::at(i0, i1) addresses data + i0 * step + i1 * elemSize
FlatIndex(cx, cy, grid) == cx * grid + cy

\* line 118
RemainingElements(nRejected, maxTotal, nFiltered) ==
  Min2(nRejected, maxTotal - nFiltered)

InitDescribe ==
  /\ gridSize \in 1..MaxGrid
  /\ maxTotalKeypoints \in 1..MaxTotal
  /\ \E n \in 0..MaxKeypoints :
       detected \in {s \in [1..n -> KeyPoints] : \A a \in 1..n : s[a].id = a}
  /\ dpc = "sort"
  /\ v_keypoints = detected
  /\ filtered_keypoints = <<>> /\ rejected_keypoints = <<>>
  /\ countFeatPerCell = <<>> /\ keypointsPerCell = 0
  /\ k = 1 /\ cellX = 0 /\ cellY = 0 /\ nGrid = 0
  \* no Match call
  /\ matcherType = "BRUTE_FORCE_L2"
  /\ pairs = {}
  /\ regionsPerView = [v \in Views |-> [count |-> 0, type |-> "uchar"]]
  /\ putatives = [p \in AllPairs |-> 0]
  /\ pc = "done"
  /\ map_Pairs = <<>> /\ todo = {} /\ I = NoView /\ matcher = {} /\ nextJ = 1
  /\ wpc = [w \in Threads |-> "idle"]
  /\ wI = [w \in Threads |-> NoView]
  /\ wJ = [w \in Threads |-> NoView]
  /\ wvec = [w \in Threads |-> <<>>]
  /\ critical = 0 /\ my_progress_bar = 0 /\ expected_count = 0
  /\ map_PutativesMatches = <<>>
  /\ buildCount = [v \in Views |-> 0]
  /\ matchRuns = [p \in AllPairs |-> 0]
  /\ insertCount = [p \in AllPairs |-> 0]

\* line 76
Sort ==
  /\ dpc = "sort"
  /\ \E s \in SortedOrders(v_keypoints) :
       v_keypoints' = [a \in 1..Len(v_keypoints) |-> v_keypoints[s[a]]]
  /\ dpc' = "gate"
  /\ UNCHANGED <<inputs, mvars, dinputs, filtered_keypoints, rejected_keypoints,
                 countFeatPerCell, keypointsPerCell, k, cellX, cellY, nGrid>>

\* lines 79, 82 false: the keypoints are left as sorted
Unfiltered ==
  /\ dpc = "gate"
  /\ ~(gridSize # 0 /\ maxTotalKeypoints # 0
       /\ Len(v_keypoints) > maxTotalKeypoints)
  /\ dpc' = "done"
  /\ UNCHANGED <<inputs, mvars, dinputs, v_keypoints, filtered_keypoints,
                 rejected_keypoints, countFeatPerCell, keypointsPerCell,
                 k, cellX, cellY, nGrid>>

\* lines 79-96
BeginFilter ==
  /\ dpc = "gate"
  /\ gridSize # 0 /\ maxTotalKeypoints # 0
  /\ Len(v_keypoints) > maxTotalKeypoints
  /\ filtered_keypoints' = <<>>
  /\ rejected_keypoints' = <<>>
  /\ countFeatPerCell' =
       [c \in (0..gridSize - 1) \X (0..gridSize - 1) |-> 0]
  /\ keypointsPerCell' = KeypointsPerCell(maxTotalKeypoints, gridSize)
  /\ k' = 1
  /\ dpc' = "loop"
  /\ UNCHANGED <<inputs, mvars, dinputs, v_keypoints, cellX, cellY, nGrid>>

\* lines 109-112
PushKeypoint(kp, count) ==
  IF count < keypointsPerCell
    THEN /\ filtered_keypoints' = Append(filtered_keypoints, kp)
         /\ UNCHANGED rejected_keypoints
    ELSE /\ rejected_keypoints' = Append(rejected_keypoints, kp)
         /\ UNCHANGED filtered_keypoints

\* lines 98-113, the indices address an element of countFeatPerCell
FilterStep ==
  /\ dpc = "loop" /\ k <= Len(v_keypoints)
  /\ LET kp == v_keypoints[k]
         cx == CellX(kp, gridSize)
         cy == CellY(kp, gridSize)
     IN  /\ InMatrix(cx, cy, gridSize)
         /\ cellX' = cx /\ cellY' = cy
         /\ countFeatPerCell' =
              [countFeatPerCell EXCEPT ![<<cx, cy>>] = @ + 1]
         /\ PushKeypoint(kp, countFeatPerCell[<<cx, cy>>])
  /\ k' = k + 1
  /\ UNCHANGED <<inputs, mvars, dinputs, dpc, v_keypoints, keypointsPerCell, nGrid>>

\* lines 98-113, an index equals gridSize: the read and the write of lines
\* 107-108 fall outside the matrix.  Without CV_DbgAssert the access lands on
\* the element the address computation reaches when that is still inside the
\* buffer, and on foreign memory otherwise: the count read is then anything
\* and the write is not seen by the matrix.
FilterStepOutside ==
  /\ dpc = "loop" /\ k <= Len(v_keypoints)
  /\ LET kp == v_keypoints[k]
         cx == CellX(kp, gridSize)
         cy == CellY(kp, gridSize)
         flat == FlatIndex(cx, cy, gridSize)
         alias == <<flat \div gridSize, flat % gridSize>>
     IN  /\ ~InMatrix(cx, cy, gridSize)
         /\ cellX' = cx /\ cellY' = cy
         /\ IF flat < gridSize * gridSize
              THEN /\ countFeatPerCell' =
                        [countFeatPerCell EXCEPT ![alias] = @ + 1]
                   /\ PushKeypoint(kp, countFeatPerCell[alias])
              ELSE /\ UNCHANGED countFeatPerCell
                   /\ \E garbage \in 0..keypointsPerCell :
                        PushKeypoint(kp, garbage)
  /\ k' = k + 1
  /\ UNCHANGED <<inputs, mvars, dinputs, dpc, v_keypoints, keypointsPerCell, nGrid>>

\* lines 107-108 with CV_DbgAssert compiled in: cv::Mat::at throws
FilterStepThrows ==
  /\ dpc = "loop" /\ k <= Len(v_keypoints)
  /\ LET kp == v_keypoints[k]
         cx == CellX(kp, gridSize)
         cy == CellY(kp, gridSize)
     IN  /\ ~InMatrix(cx, cy, gridSize)
         /\ cellX' = cx /\ cellY' = cy
  /\ dpc' = "thrown"
  /\ UNCHANGED <<inputs, mvars, dinputs, v_keypoints, filtered_keypoints,
                 rejected_keypoints, countFeatPerCell, keypointsPerCell,
                 k, nGrid>>

\* lines 114-123: top up with the first rejected keypoints, then swap
Fill ==
  /\ dpc = "loop" /\ k > Len(v_keypoints)
  /\ nGrid' = Len(filtered_keypoints)
  /\ LET topped ==
           IF Len(filtered_keypoints) < maxTotalKeypoints
             THEN filtered_keypoints \o
                  SubSeq(rejected_keypoints, 1,
                         RemainingElements(Len(rejected_keypoints),
                                           maxTotalKeypoints,
                                           Len(filtered_keypoints)))
             ELSE filtered_keypoints
     IN  /\ v_keypoints' = topped
         /\ filtered_keypoints' = v_keypoints
  /\ dpc' = "done"
  /\ UNCHANGED <<inputs, mvars, dinputs, rejected_keypoints, countFeatPerCell,
                 keypointsPerCell, k, cellX, cellY>>

NextDescribe ==
  \/ Sort
  \/ Unfiltered
  \/ BeginFilter
  \/ FilterStep
  \/ FilterStepOutside
  \/ FilterStepThrows
  \/ Fill

SpecDescribe == InitDescribe /\ [][NextDescribe]_vars

(* ------------------- properties of Match ------------------------------- *)
Active(w) == wpc[w] # "idle"
InCritical(w) == wpc[w] \in {"skip_crit", "insert_crit"}

\* the pairs Match must leave out: an empty view or two different Type_id()
SkippedPair(p) ==
  \/ regionsPerView[p[1]].count = 0
  \/ regionsPerView[p[2]].count = 0
  \/ regionsPerView[p[1]].type # regionsPerView[p[2]].type

\* C1: every key of the output map is a pair of the input Pair Set and every
\* correspondence list stored under a key is non-empty.
C1_KeysFromPairsNonEmpty ==
  \A p \in DOMAIN map_PutativesMatches :
    /\ p \in pairs
    /\ \A d \in DOMAIN map_PutativesMatches[p] : map_PutativesMatches[p][d] # <<>>

\* Match returned; one pair was stored, another was matched and, having no
\* correspondence, was not stored
C1_Witness ==
  /\ pc = "done"
  /\ \E p \in pairs, q \in pairs :
       /\ p \in DOMAIN map_PutativesMatches
       /\ matchRuns[q] = 1 /\ q \notin DOMAIN map_PutativesMatches

\* C2: a pair with an empty view I, an empty view J or different Type_id()s
\* never gets an entry and matcher.Match is never run for it; the call goes on
\* and has handed every other pair to matcher.Match when it returns.
C2_SkipSemantics ==
  /\ \A p \in pairs :
       SkippedPair(p) => p \notin DOMAIN map_PutativesMatches /\ matchRuns[p] = 0
  /\ pc = "done" => \A p \in pairs : ~SkippedPair(p) => matchRuns[p] = 1

\* Match returned after skipping one pair for its two Type_id()s and storing
\* the matches of another
C2_Witness ==
  /\ pc = "done"
  /\ \E p \in pairs, r \in pairs :
       /\ RegionCount(p[1]) > 0 /\ RegionCount(p[2]) > 0
       /\ Type_id(p[1]) # Type_id(p[2])
       /\ r \in DOMAIN map_PutativesMatches

\* the comparisons Match has disposed of: those of a group it has left, and
\* those of the current group handed out and no longer in a thread's hands
Accounted(p) ==
  /\ pc # "start"
  /\ IF pc = "parallel" /\ p[1] = I
       THEN /\ \E a \in 1..(nextJ - 1) : map_Pairs[I][a] = p[2]
            /\ \A w \in Threads : Active(w) => wJ[w] # p[2]
       ELSE p[1] \notin todo

\* C3: the progress counter counts a skipped group by its size and every other
\* comparison by one, whatever its outcome: it always equals the number of
\* comparisons disposed of, never exceeds the number of requested pairs and
\* equals it when Match returns, whatever the interleaving.
C3_ProgressAccounting ==
  /\ my_progress_bar = Cardinality({p \in pairs : Accounted(p)})
  /\ my_progress_bar <= Cardinality(pairs)
  /\ pc # "start" => expected_count = Cardinality(pairs)
  /\ pc = "done" => my_progress_bar = Cardinality(pairs)

\* Match returned after skipping a whole group of two pairs (empty reference
\* view) and counting one more comparison
C3_Witness ==
  /\ pc = "done"
  /\ \E i \in DOMAIN map_Pairs : RegionCount(i) = 0 /\ Len(map_Pairs[i]) >= 2
  /\ \E i \in DOMAIN map_Pairs : RegionCount(i) > 0
  /\ my_progress_bar >= 3

\* C4: no two threads are inside the critical sections of lines 81-82 and
\* 88-95 at the same time.
C4_MutualExclusion ==
  \A w1 \in Threads, w2 \in Threads :
    w1 # w2 => ~(InCritical(w1) /\ InCritical(w2))

\* one thread is inside the insertion's critical section while another waits
\* at the skip branch's
C4_Witness ==
  \E w1 \in Threads, w2 \in Threads :
    wpc[w1] = "insert_crit" /\ wpc[w2] = "skip_wait"

\* C5: more than one comparison of a group is in progress only for
\* CASCADE_HASHING_L2, the matcher that runs no OpenMP of its own; for every
\* other matcher the comparisons run one at a time.
C5_ParallelOnlyForCascade ==
  Cardinality({w \in Threads : Active(w)}) > 1
    => matcherType = "CASCADE_HASHING_L2"

\* two comparisons of one group in progress at once
C5_Witness ==
  /\ matcherType = "CASCADE_HASHING_L2"
  /\ \E w1 \in Threads, w2 \in Threads :
       w1 # w2 /\ wpc[w1] = "insert_wait" /\ wpc[w2] = "insert_wait"

\* C6: at most one matcher exists; every comparison in progress belongs to
\* the current reference view, whose matcher is the one alive; between two
\* groups no matcher is alive and no thread is at work.
C6_OneGroupAtATime ==
  /\ Cardinality(matcher) <= 1
  /\ \A w \in Threads :
       Active(w) => pc = "parallel" /\ wI[w] = I /\ matcher = {I}
  /\ pc # "parallel" => matcher = {} /\ \A w \in Threads : ~Active(w)

\* a comparison of a second group is in progress after a first group's
\* matcher was built and released
C6_Witness ==
  /\ pc = "parallel"
  /\ \E v \in Views : v # I /\ buildCount[v] = 1
  /\ \E w \in Threads : Active(w)

RECURSIVE SerialMatch(_, _)
\* the map a single thread builds visiting the pairs in the order of the set
SerialMatch(ps, m) ==
  IF ps = {} THEN m
  ELSE LET p == CHOOSE x \in ps : \A y \in ps :
                   x[1] < y[1] \/ (x[1] = y[1] /\ x[2] <= y[2])
           v == IndMatches(putatives[p])
       IN  IF SkippedPair(p) \/ v = <<>>
             THEN SerialMatch(ps \ {p}, m)
             ELSE SerialMatch(ps \ {p}, InsertMatches(m, p[1], p[2], v))

\* C7: the map Match returns is the map of the single-threaded run, for every
\* interleaving, and every entry was inserted exactly once.
C7_Deterministic ==
  /\ pc = "done" => map_PutativesMatches = SerialMatch(pairs, <<>>)
  /\ \A p \in AllPairs :
       /\ insertCount[p] <= 1
       /\ p \in DOMAIN map_PutativesMatches => insertCount[p] = 1

\* a later comparison inserts its matches while an earlier one of the same
\* group still waits to insert its own
C7_Witness ==
  \E w1 \in Threads, w2 \in Threads :
    /\ wpc[w1] = "insert_crit" /\ wpc[w2] = "insert_wait"
    /\ wJ[w1] > wJ[w2]
    /\ wvec[w1] # <<>> /\ wvec[w2] # <<>>

\* C8: a matcher is built at most once per view, only on a non-empty reference
\* view, and exactly once on each of them by the time Match returns.
C8_BuildOncePerReference ==
  \A v \in Views :
    /\ buildCount[v] <= 1
    /\ buildCount[v] = 1 => RegionCount(v) > 0 /\ \E p \in pairs : p[1] = v
    /\ pc = "done" =>
         (buildCount[v] = 1 <=> RegionCount(v) > 0 /\ \E p \in pairs : p[1] = v)

\* Match returned having built one matcher for a reference view two pairs
\* share, and none for an empty reference view
C8_Witness ==
  /\ pc = "done"
  /\ \E v \in Views :
       buildCount[v] = 1 /\ Cardinality({p \in pairs : p[1] = v}) >= 2
  /\ \E v \in Views :
       buildCount[v] = 0 /\ RegionCount(v) = 0 /\ \E p \in pairs : p[1] = v

(* ------------------- properties of Describe ---------------------------- *)
\* the cell of the grid a keypoint lies in, edge keypoints in the last cell
GridCell(kp) ==
  <<Min2((kp.x * gridSize) \div Width, gridSize - 1),
    Min2((kp.y * gridSize) \div Height, gridSize - 1)>>

Descending(s, from, to) ==
  \A a \in from..to, b \in from..to : a < b => s[a].size >= s[b].size

\* C9: with gridSize > 0 and maxTotalKeypoints > 0, at most maxTotalKeypoints
\* detected keypoints are all kept; of more, exactly maxTotalKeypoints
\* distinct ones are kept: per cell the largest, at most
\* maxTotalKeypoints / gridSize^2 of them, then the largest of the others.
C9_GridFilterKeepsMax ==
  dpc = "done" =>
    IF Len(detected) <= maxTotalKeypoints
      THEN /\ Len(v_keypoints) = Len(detected)
           /\ \A a \in 1..Len(detected) :
                \E b \in 1..Len(v_keypoints) : v_keypoints[b] = detected[a]
      ELSE LET kept == {v_keypoints[a].id : a \in 1..Len(v_keypoints)}
               grid == {v_keypoints[a].id : a \in 1..Min2(nGrid, Len(v_keypoints))}
               perCell == maxTotalKeypoints \div (gridSize * gridSize)
           IN  /\ Len(v_keypoints) = maxTotalKeypoints
               /\ \A a \in 1..Len(v_keypoints) :
                    /\ v_keypoints[a].id \in 1..Len(detected)
                    /\ v_keypoints[a] = detected[v_keypoints[a].id]
               /\ Cardinality(kept) = Len(v_keypoints)
               /\ nGrid <= Len(v_keypoints)
               /\ \A c \in (0..gridSize - 1) \X (0..gridSize - 1) :
                    Cardinality({i \in grid : GridCell(detected[i]) = c}) <= perCell
               /\ \A i \in grid, u \in 1..Len(detected) :
                    u \notin grid /\ GridCell(detected[u]) = GridCell(detected[i])
                      => detected[i].size >= detected[u].size
               /\ Descending(v_keypoints, 1, nGrid)
               /\ Descending(v_keypoints, nGrid + 1, Len(v_keypoints))
               /\ \A i \in kept \ grid, u \in 1..Len(detected) :
                    u \notin kept => detected[i].size >= detected[u].size

\* C10: the clamped indices cellX and cellY of every keypoint visited are
\* indices of the gridSize x gridSize matrix countFeatPerCell.
C10_CellIndicesInMatrix ==
  /\ cellX \in 0..gridSize - 1
  /\ cellY \in 0..gridSize - 1

====
